---- MODULE Spec2Model ----
(***************************************************************************)
(* Model of the diagram render-and-export pipeline of                      *)
(* src/src/components/MermaidRenderer.tsx: the render effect of the        *)
(* MermaidRenderer component (renderChart) and its imperative handle       *)
(* (downloadAsPNG), on the single UI thread of the browser.  Every action  *)
(* is one event-loop task or microtask continuation: a prop change with    *)
(* its commit and effect, the continuation of renderChart after the await, *)
(* a call of downloadAsPNG, and the img.onload / img.onerror /             *)
(* canvas.toBlob callbacks.                                                *)
(***************************************************************************)
EXTENDS Integers, Sequences, FiniteSets, Bags

\* ------------------------------------------------------------------ bounds
MaxAttempts == 2     \* engine calls (mermaid.render) explored
MaxExports == 2      \* downloadAsPNG calls explored
MaxClock == 1        \* readings of Date.now() explored: 0..MaxClock
MaxSubmits == 2      \* agent requests explored
MaxOpens == 1        \* window.open calls explored
Resolution == 4      \* lengths are counted in 1/Resolution of a logical unit

\* ------------------------------------------------------- program constants
padding == 40
MaxUrlLength == 2000
scale == 2

\* ------------------------------------------------------------------ inputs
\* Strings are sequences of one-character strings.
Descriptions == { <<>>, <<" ">>, <<"A">>, <<" ", "B">> }

\* A name in which '.png' also occurs before the extension.
PngPngName == <<"d", ".", "p", "n", "g", ".", "p", "n", "g">>
FileNames == { PngPngName }
\* The optional parameter of downloadAsPNG: absent, or one filename.
FilenameArgs == { <<>> } \cup { <<f>> : f \in FileNames }

\* Lengths (SVG and DOM lengths are floating-point numbers) are numerators
\* over Resolution: Units(100) is 100, Units(100) + 1 is 100 + 1/Resolution.
Units(n) == n * Resolution

\* What the engine's markup for a description declares as its viewBox size
\* (0: no logical size declared).
ViewBoxOf(d) ==
  IF d = <<"A">> THEN [w |-> Units(100) + 1, h |-> Units(60)] ELSE [w |-> 0, h |-> 0]
\* What layout gives as the bounding box of the mounted element.
Rects == { [w |-> Units(50), h |-> Units(30) + 2] }

\* ----------------------------------------------------------------- strings
IsSpace(c) == c = " "

RECURSIVE TrimStart(_)
TrimStart(s) ==
  IF s # <<>> /\ IsSpace(Head(s)) THEN TrimStart(Tail(s)) ELSE s

RECURSIVE TrimEnd(_)
TrimEnd(s) ==
  IF s # <<>> /\ IsSpace(s[Len(s)]) THEN TrimEnd(SubSeq(s, 1, Len(s) - 1)) ELSE s

\* String.prototype.trim
Trim(s) == TrimEnd(TrimStart(s))

\* JavaScript truthiness of chart.trim()
TrimTruthy(s) == Trim(s) # <<>>

\* Position of the first occurrence of pat in s, 0 when there is none.
RECURSIVE IndexFrom(_, _, _)
IndexFrom(s, pat, i) ==
  IF i + Len(pat) - 1 > Len(s) THEN 0
  ELSE IF SubSeq(s, i, i + Len(pat) - 1) = pat THEN i
  ELSE IndexFrom(s, pat, i + 1)

\* String.prototype.replace with a string pattern: the first occurrence only.
Replace(s, pat, rep) ==
  LET i == IndexFrom(s, pat, 1) IN
  IF i = 0 THEN s
  ELSE SubSeq(s, 1, i - 1) \o rep \o SubSeq(s, i + Len(pat), Len(s))

\* Number.prototype.toString of a non-negative integer, as in a template
\* literal.
DigitChars == <<"0", "1", "2", "3", "4", "5", "6", "7", "8", "9">>

RECURSIVE Decimal(_)
Decimal(n) ==
  IF n < 10 THEN << DigitChars[n + 1] >>
  ELSE Decimal(n \div 10) \o << DigitChars[(n % 10) + 1] >>

DotPng == <<".", "p", "n", "g">>
DotSvg == <<".", "s", "v", "g">>
DefaultFilename ==
  <<"m","e","r","m","a","i","d","-","d","i","a","g","r","a","m",".","p","n","g">>

\* ------------------------------------------------------------------- state
VARIABLES
  chart,        \* the chart prop of the latest render of the component
  mounted,      \* mermaidRef.current is the mount <div> (FALSE: null)
  mount,        \* the content (innerHTML) of the mount <div>
  pending,      \* render attempts suspended at `await mermaid.render`
  engineCalls,  \* number of mermaid.render calls made so far
  now,          \* the reading of Date.now()
  errorLog,     \* console.error('Mermaid rendering error:', ...) calls
  unhandled,    \* rejections of the promise of renderChart() nobody handles
  exportCalls,  \* number of downloadAsPNG calls made so far
  started,      \* the calls among them that reached `img.src = svgDataUrl`
  jobs,         \* exports waiting for img.onload/onerror or the toBlob callback
  files,        \* the files saved so far (link.click()): a bag
  urlsCreated,  \* URL.createObjectURL calls
  urlsRevoked,  \* URL.revokeObjectURL calls
  instance,     \* ChatInterface: how many times the renderer was unmounted
  ytUrl,        \* ChatInterface state: the text of the input
  description,  \* ChatInterface state: the process description
  isLoading,    \* ChatInterface state
  error,        \* ChatInterface state: the message shown, "" for none
  submits,      \* agent requests made so far
  requests,     \* calls of AgentService.processYouTubeUrl not settled yet
  opened        \* window.open calls: the lengths of the URLs opened

vars == << chart, mounted, mount, pending, engineCalls, now, errorLog, unhandled,
           exportCalls, started, jobs, files, urlsCreated, urlsRevoked,
           instance, ytUrl, description, isLoading, error, submits, requests,
           opened >>

renderVars == << chart, mounted, mount, pending, engineCalls, errorLog, unhandled >>
exportVars == << exportCalls, started, jobs, files, urlsCreated, urlsRevoked >>
formVars == << instance, ytUrl, description, isLoading, error, submits, requests,
               opened >>

AttrUnset == 0 - 1

\* The empty mount <div> (innerHTML = '').
Empty ==
  [ kind |-> "empty", seq |-> 0, id |-> 0, desc |-> <<>>, vbW |-> 0, vbH |-> 0,
    width |-> AttrUnset, height |-> AttrUnset, styled |-> FALSE, detail |-> <<>> ]

\* A commit that adds to the content instead of replacing it (innerHTML +=).
RenderedMarkupAppended(a) ==
  [ kind |-> "svg", seq |-> a.seq, id |-> a.id, desc |-> a.desc,
    vbW |-> ViewBoxOf(a.desc).w, vbH |-> ViewBoxOf(a.desc).h,
    width |-> AttrUnset, height |-> AttrUnset, styled |-> TRUE,
    detail |-> mount.detail ]

\* The <svg> the engine returned for attempt a, inserted and styled.
RenderedMarkup(a) ==
  [ kind |-> "svg", seq |-> a.seq, id |-> a.id, desc |-> a.desc,
    vbW |-> ViewBoxOf(a.desc).w, vbH |-> ViewBoxOf(a.desc).h,
    width |-> AttrUnset, height |-> AttrUnset, styled |-> TRUE, detail |-> <<>> ]

\* A catch block that only logs.
ErrorPanelSilent(a) == Empty

\* The error panel of attempt a: summary plus the error in <details>.
ErrorPanel(a) ==
  [ kind |-> "error", seq |-> a.seq, id |-> 0, desc |-> a.desc, vbW |-> 0, vbH |-> 0,
    width |-> AttrUnset, height |-> AttrUnset, styled |-> FALSE,
    detail |-> <<"Error rendering diagram", a.desc>> ]

Init ==
  /\ chart = <<>>
  /\ mounted = FALSE
  /\ mount = Empty
  /\ pending = {}
  /\ engineCalls = 0
  /\ now = 0
  /\ errorLog = 0
  /\ unhandled = 0
  /\ exportCalls = 0
  /\ started = {}
  /\ jobs = {}
  /\ files = EmptyBag
  /\ urlsCreated = 0
  /\ urlsRevoked = 0
  /\ instance = 0
  /\ ytUrl = <<>>
  /\ description = <<>>
  /\ isLoading = FALSE
  /\ error = ""
  /\ submits = 0
  /\ requests = {}
  /\ opened = <<>>

\* ------------------------------------------------------------ the clock
Tick ==
  /\ now < MaxClock
  /\ now' = now + 1
  /\ UNCHANGED << renderVars, exportVars, formVars >>

\* ------------------------------------------------------ render controller
\* A component without the early `return null`.
RendersMountAlways(d) == TRUE

\* The component's render result: null (no mount <div>) for a blank chart.
RendersMount(d) == TrimTruthy(d)

\* The guard of renderChart: a mount <div> exists and chart.trim() is truthy.
StartsAttempt(isMounted, d) == isMounted /\ TrimTruthy(d)

\* `mermaid-${Date.now()}`
AttemptId == now

\* An attempt that leaves the previous content in place while the engine runs.
NotCleared(m) == m

\* The mount point after renderChart cleared it, before the engine is called.
Cleared(m) == Empty

\* The component renders with chart d; React commits (the ref is attached or
\* detached) and runs the effect of [chart]: renderChart up to its await.
Rerender(d) ==
  /\ chart' = d
  /\ mounted' = RendersMount(d)
  /\ mount' = IF StartsAttempt(RendersMount(d), d) THEN Cleared(mount) ELSE Empty
  /\ IF StartsAttempt(RendersMount(d), d)
       THEN /\ engineCalls' = engineCalls + 1
            /\ pending' = pending \cup
                 { [seq |-> engineCalls + 1, id |-> AttemptId, desc |-> d,
                    inst |-> instance] }
       ELSE UNCHANGED << engineCalls, pending >>

\* The parent renders the component with a new chart.
SetChart(d) ==
  /\ d # chart
  /\ StartsAttempt(RendersMount(d), d) => engineCalls < MaxAttempts
  /\ Rerender(d)
  /\ UNCHANGED << now, errorLog, unhandled, exportVars, formVars >>

\* Whether the continuation of attempt a finds an element to write to: the
\* code tests nothing after the await and writes to whatever the ref holds.
\* The ref belongs to the component instance that started the attempt; it is
\* null for good once the parent has unmounted that instance.
Applies(a) == mounted /\ a.inst = instance

\* A continuation that writes nothing when the engine resolves.
ResolveLost(a) ==
  /\ a \in pending
  /\ pending' = pending \ {a}
  /\ UNCHANGED << chart, mounted, mount, engineCalls, now, errorLog, unhandled,
                  exportVars, formVars >>

\* mermaid.render resolved for attempt a (lines 145-153).  On a null ref the
\* write throws a TypeError inside the try, the catch block logs it and its
\* own write throws again: renderChart() rejects and nothing handles it.
Resolve(a) ==
  /\ a \in pending
  /\ pending' = pending \ {a}
  /\ IF Applies(a)
       THEN /\ mount' = RenderedMarkup(a)
            /\ UNCHANGED << errorLog, unhandled >>
       ELSE /\ errorLog' = errorLog + 1
            /\ unhandled' = unhandled + 1
            /\ UNCHANGED mount
  /\ UNCHANGED << chart, mounted, engineCalls, now, exportVars, formVars >>

\* A catch block that calls the engine again for the same description.
RejectWithRetry(a) ==
  /\ a \in pending
  /\ engineCalls < MaxAttempts
  /\ pending' = (pending \ {a}) \cup { [a EXCEPT !.seq = engineCalls + 1] }
  /\ engineCalls' = engineCalls + 1
  /\ errorLog' = errorLog + 1
  /\ UNCHANGED << chart, mounted, mount, unhandled, now, exportVars, formVars >>

\* mermaid.render rejected for attempt a: the catch block (lines 154-166).
Reject(a) ==
  /\ a \in pending
  /\ pending' = pending \ {a}
  /\ errorLog' = errorLog + 1
  /\ IF Applies(a)
       THEN /\ mount' = ErrorPanel(a)
            /\ UNCHANGED unhandled
       ELSE /\ unhandled' = unhandled + 1
            /\ UNCHANGED mount
  /\ UNCHANGED << chart, mounted, engineCalls, now, exportVars, formVars >>

\* --------------------------------------------------------- raster exporter
\* A precondition that tests the ref only, not the <svg> inside it.
HasSvgRefOnly == mounted

\* Lines 17-20: the ref holds the mount <div> and it contains an <svg>.
HasSvg == mounted /\ mount.kind = "svg"

\* Lines 27-28: viewBox.baseVal size, or (when that is 0) the bounding box.
SvgWidth(el, rect) == IF el.vbW # 0 THEN el.vbW ELSE rect.w
SvgHeight(el, rect) == IF el.vbH # 0 THEN el.vbH ELSE rect.h

\* setAttribute('width', ...) and setAttribute('height', ...) on an element.
Stamp(el, w, h) == [el EXCEPT !.width = w, !.height = h]

\* Lines 23-32: the attributes are set on svgClone; the live element is the
\* one cloneNode(true) copied from and is not written.
SvgClone(el, w, h) == Stamp(el, w, h)
\* An exporter that sets the attributes on svgElement itself.
LiveElementStamped(el, w, h) == Stamp(el, w, h)
LiveElement(el, w, h) == el

\* XMLSerializer.serializeToString: the element's id, content and attributes
\* (the attempt's sequence number is not part of the markup).
Serialize(el) ==
  << "svg", el.id, el.desc, el.vbW, el.vbH, el.width, el.height, el.styled >>

\* Assignment to canvas.width / canvas.height, which are integers (unsigned
\* long): the fractional part of the number assigned is dropped.
ToUnsignedLong(x) == x \div Resolution

\* A surface padded on one side only.
CanvasWidthOnePad(w) == ToUnsignedLong((w + Units(padding)) * scale)

\* Lines 42-43, in pixels
CanvasWidth(w) == ToUnsignedLong((w + Units(padding) * 2) * scale)
CanvasHeight(h) == ToUnsignedLong((h + Units(padding) * 2) * scale)

\* An exporter that ignores its parameter.
FilenameIgnored(arg) == DefaultFilename

\* Line 16: the default parameter value.
Filename(arg) == IF arg = <<>> THEN DefaultFilename ELSE arg[1]

\* Lines 83 and 98
FallbackName(filename) == Replace(filename, DotPng, DotSvg)

\* A file saved: job and arg tell which call saved it and with which argument.
RasterFile(j) ==
  [ job |-> j.n, arg |-> j.arg,
    type |-> "image/png", name |-> j.filename, src |-> j.svgData,
    canvas |-> << j.canvasW, j.canvasH >>,
    drawn |-> << Units(padding), Units(padding), j.w, j.h >> ]

\* A fallback that serializes the element mounted when the callback runs.
VectorFileFromLive(j) ==
  [ job |-> j.n, arg |-> j.arg,
    type |-> "image/svg+xml", name |-> FallbackName(j.filename),
    src |-> Serialize(SvgClone(mount, j.w, j.h)), canvas |-> <<>>, drawn |-> <<>> ]

VectorFile(j) ==
  [ job |-> j.n, arg |-> j.arg,
    type |-> "image/svg+xml", name |-> FallbackName(j.filename),
    src |-> j.svgData, canvas |-> <<>>, drawn |-> <<>> ]

\* Lines 64-75: what the toBlob callback saves for the blob it is given.
BlobSaves(j, blob) == IF blob THEN SetToBag({ RasterFile(j) }) ELSE EmptyBag

\* Lines 76-88: what the catch block of img.onload saves.
CatchSaves(j) == SetToBag({ VectorFile(j) })

\* An img.onerror that only logs.
DecodeErrorSavesNothing(j) == EmptyBag

\* Lines 91-103: what img.onerror saves.
DecodeErrorSaves(j) == SetToBag({ VectorFile(j) })

\* Lines 66, 80, 95: one object URL is created for every blob saved.
Created(saved) == BagCardinality(saved)

\* A save that leaves its object URL alive.
RevokedNever(saved) == 0

\* Lines 73, 87, 102: the URL is revoked right after link.click().
Revoked(saved) == BagCardinality(saved)

\* createObjectURL, link.click(), revokeObjectURL: one handler step.
Save(saved) ==
  /\ files' = files (+) saved
  /\ urlsCreated' = urlsCreated + Created(saved)
  /\ urlsRevoked' = urlsRevoked + Revoked(saved)

\* downloadAsPNG(filename?) up to `img.src = svgDataUrl`.  ctx is what
\* canvas.getContext('2d') returned (FALSE: null), rect the bounding box.
Download(arg, ctx, rect) ==
  /\ exportCalls < MaxExports
  /\ exportCalls' = exportCalls + 1
  /\ IF ~HasSvg
       THEN UNCHANGED << mount, started, jobs >>
       ELSE LET w == SvgWidth(mount, rect)
                h == SvgHeight(mount, rect)
            IN  /\ mount' = LiveElement(mount, w, h)
                /\ IF ~ctx
                     THEN UNCHANGED << started, jobs >>
                     ELSE /\ started' = started \cup { exportCalls + 1 }
                          /\ jobs' = jobs \cup
                              { [ n |-> exportCalls + 1, stage |-> "decode",
                                  blob |-> FALSE, arg |-> arg,
                                  filename |-> Filename(arg),
                                  svgData |-> Serialize(SvgClone(mount, w, h)),
                                  w |-> w, h |-> h,
                                  canvasW |-> CanvasWidth(w),
                                  canvasH |-> CanvasHeight(h) ] }
  /\ UNCHANGED formVars
  /\ UNCHANGED << chart, mounted, pending, engineCalls, now, errorLog, unhandled,
                  files, urlsCreated, urlsRevoked >>

\* img.onload.  thrown: drawImage or canvas.toBlob threw (a tainted canvas,
\* a broken image), which runs the catch block; otherwise the toBlob callback
\* is pending, and blob is what the encoder will hand it (FALSE: null).
ImgLoad(j, thrown, blob) ==
  /\ j \in jobs
  /\ j.stage = "decode"
  /\ thrown => ~blob
  /\ IF thrown
       THEN /\ jobs' = jobs \ {j}
            /\ Save(CatchSaves(j))
       ELSE /\ jobs' = (jobs \ {j}) \cup
                         { [j EXCEPT !.stage = "encode", !.blob = blob] }
            /\ UNCHANGED << files, urlsCreated, urlsRevoked >>
  /\ UNCHANGED << renderVars, now, exportCalls, started, formVars >>

\* The callback of canvas.toBlob.  blob: FALSE is a null blob.
ToBlob(j, blob) ==
  /\ j \in jobs
  /\ j.stage = "encode"
  /\ blob = j.blob
  /\ jobs' = jobs \ {j}
  /\ Save(BlobSaves(j, blob))
  /\ UNCHANGED << renderVars, now, exportCalls, started, formVars >>

\* img.onerror
ImgError(j) ==
  /\ j \in jobs
  /\ j.stage = "decode"
  /\ jobs' = jobs \ {j}
  /\ Save(DecodeErrorSaves(j))
  /\ UNCHANGED << renderVars, now, exportCalls, started, formVars >>

\* ---------------------------------------------------------- export trigger
\* ChatInterface.tsx line 21: `youtube-diagram-${Date.now()}.png`
TriggerFilename(t) ==
  <<"y","o","u","t","u","b","e","-","d","i","a","g","r","a","m","-">>
    \o Decimal(t) \o DotPng

\* ChatInterface.tsx lines 151-182: the parent renders MermaidRenderer, and so
\* holds its handle, only for a truthy (non-empty) mermaidDiagram.
HandleAttached == chart # <<>>

\* ChatInterface.tsx handleDownload (lines 19-24).
HandleDownload(ctx, rect) ==
  /\ HandleAttached
  /\ Download(<< TriggerFilename(now) >>, ctx, rect)

\* ------------------------------------------------------ ChatInterface form
\* What the user types.  A URL is a sequence of its parts, blanks around it
\* being parts of their own, so that trim() and the pattern act on it.
YtUrls ==
  { << " " >>, << "x" >>, << " ", "https://", "youtu.be/", "x", " " >> }

SkipOptional(s, parts) == IF s # <<>> /\ Head(s) \in parts THEN Tail(s) ELSE s

\* youtubeRegex.test(s), line 72: an optional scheme, an optional www., one of
\* the three path forms, and at least one character of [\w-]; no end anchor.
YoutubeRegexTest(s) ==
  LET a == SkipOptional(s, { "http://", "https://" })
      b == SkipOptional(a, { "www." })
  IN  \/ /\ Len(b) >= 3
         /\ b[1] = "youtube.com/"
         /\ b[2] \in { "watch?v=", "embed/" }
         /\ b[3] \in { "x" }
      \/ /\ Len(b) >= 2
         /\ b[1] = "youtu.be/"
         /\ b[2] \in { "x" }

\* A button that is disabled only for a blank input.
IsButtonDisabledBlankOnly == ~TrimTruthy(ytUrl)

\* Line 17.
IsButtonDisabled == isLoading \/ ~TrimTruthy(ytUrl)

\* A handler that leaves the diagram in place while the agent works.
SetMermaidDiagramKept(d) ==
  IF d = <<>>
    THEN UNCHANGED << chart, mounted, mount, pending, engineCalls, instance >>
    ELSE IF d = chart
    THEN UNCHANGED << chart, mounted, mount, pending, engineCalls, instance >>
    ELSE /\ Rerender(d)
         /\ UNCHANGED instance

\* setMermaidDiagram(d) and the commit that follows: the renderer is a child
\* only for a truthy d (lines 151-182), so '' unmounts the instance; a state
\* set to the value it has renders nothing anew.
SetMermaidDiagram(d) ==
  IF d = chart
    THEN UNCHANGED << chart, mounted, mount, pending, engineCalls, instance >>
    ELSE /\ Rerender(d)
         /\ instance' = IF d = <<>> THEN instance + 1 ELSE instance

\* onChange of the input (line 113); the input is disabled while loading.
SetYtUrl(u) ==
  /\ ~isLoading
  /\ u # ytUrl
  /\ ytUrl' = u
  /\ UNCHANGED << renderVars, now, exportVars, instance, description, isLoading,
                  error, submits, requests, opened >>

\* handleSubmit up to its await (lines 63-84).
HandleSubmit ==
  IF ~TrimTruthy(ytUrl)
    THEN /\ error' = "Please enter a YouTube URL"
         /\ UNCHANGED << chart, mounted, mount, pending, engineCalls, instance,
                         description, isLoading, submits, requests >>
    ELSE IF ~YoutubeRegexTest(Trim(ytUrl))
    THEN /\ error' = "Please enter a valid YouTube URL"
         /\ UNCHANGED << chart, mounted, mount, pending, engineCalls, instance,
                         description, isLoading, submits, requests >>
    ELSE /\ submits < MaxSubmits
         /\ isLoading' = TRUE
         /\ error' = ""
         /\ SetMermaidDiagram(<<>>)
         /\ description' = <<>>
         /\ submits' = submits + 1
         /\ requests' = requests \cup { [ n |-> submits + 1, url |-> ytUrl ] }

\* The form is submitted through its button (line 122).
Submit ==
  /\ ~IsButtonDisabled
  /\ HandleSubmit
  /\ UNCHANGED << now, errorLog, unhandled, exportVars, ytUrl, opened >>

\* What the agent may answer: a small diagram, or no diagram at all, ...
ShortResults ==
  { [ mermaid |-> << "A" >>, description |-> << "D" >> ],
    [ mermaid |-> <<>>, description |-> << "D" >> ] }

\* ... or a diagram whose draw.io URL has exactly the longest length accepted,
\* or one whose URL is one character longer.  Both start with a blank, which
\* trim() removes.
Newline == "\n"
Lines(n) == [ i \in 1..n |-> Newline ]
FittingDiagram == << " ", "A" >> \o Lines(477) \o << "A", "A", "A", "A" >>
LargeDiagram == << " ", "A" >> \o Lines(477) \o << "A", "A", "A", "A", "A" >>
AgentResults ==
  ShortResults \cup
    { [ mermaid |-> m, description |-> << "D" >> ] :
        m \in { FittingDiagram, LargeDiagram } }

\* What the agent call may throw: an Error with a message, or another value.
AgentErrors ==
  { [ isError |-> TRUE, message |-> "Failed to fetch" ],
    [ isError |-> FALSE, message |-> "" ] }

\* Line 88.
ErrorText(e) == IF e.isError THEN e.message ELSE "An error occurred"

\* The agent call rejected: catch and finally of handleSubmit (lines 87-91).
AgentRejects(q, e) ==
  /\ q \in requests
  /\ requests' = requests \ {q}
  /\ error' = ErrorText(e)
  /\ isLoading' = FALSE
  /\ UNCHANGED << renderVars, now, exportVars, instance, ytUrl, description,
                  submits, opened >>

\* The agent call resolved with r: lines 85-86 and finally (line 90).
AgentResolves(q, r) ==
  /\ q \in requests
  /\ StartsAttempt(RendersMount(r.mermaid), r.mermaid) => engineCalls < MaxAttempts
  /\ requests' = requests \ {q}
  /\ SetMermaidDiagram(r.mermaid)
  /\ description' = r.description
  /\ isLoading' = FALSE
  /\ UNCHANGED << now, errorLog, unhandled, exportVars, ytUrl, error, submits,
                  opened >>

\* JSON.stringify of one character of a string value.
JsonChar(c) ==
  IF c = Newline THEN << "\\", "n" >>
  ELSE IF c \in { "\"", "\\" } THEN << "\\", c >>
  ELSE << c >>

\* JSON.stringify of a string value, without the quotes around it.
RECURSIVE JsonEscape(_)
JsonEscape(str) ==
  IF str = <<>> THEN <<>>
  ELSE IF Len(str) = 1 THEN JsonChar(str[1])
  ELSE LET half == Len(str) \div 2
       IN  JsonEscape(SubSeq(str, 1, half))
             \o JsonEscape(SubSeq(str, half + 1, Len(str)))

\* JSON.stringify({ type: "mermaid", data: data }) (lines 29-35).
JsonPayload(data) ==
  << "{", "\"", "t", "y", "p", "e", "\"", ":",
     "\"", "m", "e", "r", "m", "a", "i", "d", "\"", ",",
     "\"", "d", "a", "t", "a", "\"", ":", "\"" >>
    \o JsonEscape(data) \o << "\"", "}" >>

\* The characters encodeURIComponent leaves as they are, among those used.
Unreserved ==
  { "A", "B", "D", "a", "d", "e", "i", "m", "n", "p", "r", "t", "y",
    "-", "_", ".", "!", "~", "*", "'", "(", ")" }

\* The length of encodeURIComponent(str) for ASCII text: %XX for the rest.
EncodedLength(str) ==
  Len(str) + 2 * Cardinality({ i \in DOMAIN str : str[i] \notin Unreserved })

\* `https://app.diagrams.net/?create=`
DrawIOPrefix ==
  << "h", "t", "t", "p", "s", ":", "/", "/",
     "a", "p", "p", ".", "d", "i", "a", "g", "r", "a", "m", "s", ".", "n", "e", "t",
     "/", "?", "c", "r", "e", "a", "t", "e", "=" >>

\* drawioUrl.length in generateDrawIOUrl (lines 29-39).
DrawIOUrlLength(mermaidContent) ==
  Len(DrawIOPrefix) + EncodedLength(JsonPayload(Trim(mermaidContent)))

\* A limit test that lets a URL of one character more through.
UrlTooLongOffByOne(len) == len > MaxUrlLength + 1

\* Line 42.
UrlTooLong(len) == len > MaxUrlLength

\* handleOpenInDrawIO (lines 53-61); its button exists while the diagram is
\* shown (lines 151-167).
HandleOpenInDrawIO ==
  /\ chart # <<>>
  /\ ~UrlTooLong(DrawIOUrlLength(chart)) => Len(opened) < MaxOpens
  /\ IF UrlTooLong(DrawIOUrlLength(chart))
       THEN /\ error' = "Unable to open in draw.io: Diagram may be too large"
            /\ UNCHANGED opened
       ELSE /\ opened' = Append(opened, DrawIOUrlLength(chart))
            /\ UNCHANGED error
  /\ UNCHANGED << renderVars, now, exportVars, instance, ytUrl, description,
                  isLoading, submits, requests >>

\* The render controller alone, with the clock.
NextRender ==
  \/ Tick
  \/ \E d \in Descriptions : SetChart(d)
  \/ \E a \in pending : Resolve(a)
  \/ \E a \in pending : Reject(a)

SpecRender == Init /\ [][NextRender]_vars

\* The render controller with an engine that settles every call: the promise
\* awaited at line 142 is eventually resolved or rejected.
EngineSettles == \E a \in pending : Resolve(a) \/ Reject(a)

SpecRenderFair == SpecRender /\ WF_vars(EngineSettles)

\* The render controller and the exporter.
Next ==
  \/ \E d \in Descriptions : SetChart(d)
  \/ \E a \in pending : Resolve(a)
  \/ \E a \in pending : Reject(a)
  \/ \E arg \in FilenameArgs, ctx \in BOOLEAN, rect \in Rects : Download(arg, ctx, rect)
  \/ \E j \in jobs, thrown \in BOOLEAN, blob \in BOOLEAN : ImgLoad(j, thrown, blob)
  \/ \E j \in jobs, blob \in BOOLEAN : ToBlob(j, blob)
  \/ \E j \in jobs : ImgError(j)

Spec == Init /\ [][Next]_vars

\* The render controller and the exporter called through the export trigger of
\* ChatInterface, with the clock.
NextTrigger ==
  \/ Tick
  \/ \E d \in Descriptions : SetChart(d)
  \/ \E a \in pending : Resolve(a)
  \/ \E a \in pending : Reject(a)
  \/ \E ctx \in BOOLEAN, rect \in Rects : HandleDownload(ctx, rect)
  \/ \E j \in jobs, thrown \in BOOLEAN, blob \in BOOLEAN : ImgLoad(j, thrown, blob)
  \/ \E j \in jobs, blob \in BOOLEAN : ToBlob(j, blob)
  \/ \E j \in jobs : ImgError(j)

SpecTrigger == Init /\ [][NextTrigger]_vars

\* ChatInterface: the form, the agent, the renderer it mounts and the two
\* buttons shown with the diagram.
NextForm ==
  \/ \E u \in YtUrls : SetYtUrl(u)
  \/ Submit
  \/ \E q \in requests, r \in AgentResults : AgentResolves(q, r)
  \/ \E q \in requests, e \in AgentErrors : AgentRejects(q, e)
  \/ \E a \in pending : Resolve(a)
  \/ \E a \in pending : Reject(a)
  \/ HandleOpenInDrawIO

SpecForm == Init /\ [][NextForm]_vars

\* ChatInterface: the form, the agent, the renderer and the download button.
NextFormExport ==
  \/ \E u \in YtUrls : SetYtUrl(u)
  \/ Submit
  \/ \E q \in requests, r \in ShortResults : AgentResolves(q, r)
  \/ \E q \in requests, e \in AgentErrors : AgentRejects(q, e)
  \/ \E a \in pending : Resolve(a)
  \/ \E a \in pending : Reject(a)
  \/ \E ctx \in BOOLEAN, rect \in Rects : HandleDownload(ctx, rect)
  \/ \E j \in jobs, thrown \in BOOLEAN, blob \in BOOLEAN : ImgLoad(j, thrown, blob)
  \/ \E j \in jobs, blob \in BOOLEAN : ToBlob(j, blob)
  \/ \E j \in jobs : ImgError(j)

SpecFormExport == Init /\ [][NextFormExport]_vars

\* ================================================================= claims
Outcome(m) == m.kind \in { "svg", "error" }
SvgMounted == mounted /\ mount.kind = "svg"
FilesOf(n) == { f \in BagToSet(files) : f.job = n }
CountOf(n) == BagCardinality([ f \in FilesOf(n) |-> files[f] ])
InFlight(n) == \E j \in jobs : j.n = n
SavedOne(f) == files' = files (+) SetToBag({ f })

\* C1 -- Staleness invariant: when the compile of an earlier attempt completes
\* while the mount point shows the committed outcome of a later attempt, the
\* mount point still shows the later attempt's outcome afterwards.
C1_Staleness ==
  [][ \A a \in pending :
        (a \notin pending' /\ mounted /\ Outcome(mount) /\ mount.seq > a.seq)
          => mount' = mount ]_vars

\* C2 -- Export availability: every downloadAsPNG call made while an <svg> was
\* mounted and whose image decode was started has, once none of its callbacks
\* is outstanding, saved exactly one file.
C2_ExactlyOneFile ==
  \A n \in started : InFlight(n) \/ CountOf(n) = 1

\* C3 -- Encode-failure fallback: an export whose image decoded never ends
\* with nothing saved; when the toBlob callback has run, one file (the raster,
\* or the vector fallback when there is no blob) has been saved for it.
C3_EncodeFallback ==
  [][ \A j \in jobs :
        (j.stage = "encode" /\ j \notin jobs')
          => \E f \in BagToSet(files') : f.job = j.n /\ SavedOne(f) ]_vars

\* C4 -- Decode-failure fallback: when an export ends at the decode stage
\* (img.onerror, or a throw in img.onload), exactly one file is saved, it is a
\* vector file holding the serialized clone, and no failure is surfaced: no
\* unhandled rejection, no error log of the renderer, no change of the mount.
C4_DecodeFallback ==
  [][ \A j \in jobs :
        (j.stage = "decode" /\ ~(\E k \in jobs' : k.n = j.n))
          => /\ \E f \in BagToSet(files') :
                  /\ f.job = j.n
                  /\ f.type = "image/svg+xml"
                  /\ f.src = j.svgData
                  /\ SavedOne(f)
             /\ UNCHANGED << mount, mounted, unhandled, errorLog >> ]_vars

C4_Witness ==
  \E f \in BagToSet(files) :
    /\ f.type = "image/svg+xml"
    /\ f.src[3] = <<"A">>
    /\ f.src[6] = f.src[4]
    /\ CountOf(f.job) = 1
    /\ ~InFlight(f.job)

\* C5 -- Non-mutation of live markup: no step of the exporter (a call, a
\* decode or encode callback, a save) changes the mount point, and every
\* change of the mount point is a step of the render controller.
C5_NonMutation ==
  [][ /\ (exportVars' # exportVars) => UNCHANGED << mount, mounted >>
      /\ (mount' # mount) => (chart' # chart \/ pending' # pending) ]_vars

\* An export has stamped its clone (the saved data carry the width) while the
\* live element still has no width attribute.
C5_Witness ==
  /\ SvgMounted
  /\ mount.vbW # 0
  /\ mount.width = AttrUnset
  /\ \E f \in BagToSet(files) :
       f.src = << "svg", mount.id, mount.desc, mount.vbW, mount.vbH,
                  mount.vbW, mount.vbH, TRUE >>

\* C6 -- No unhandled failure escapes a render attempt: the promise of
\* renderChart() never rejects.
C6_NoUnhandled == unhandled = 0

\* C7 -- Commit gating: an attempt whose description is not the latest
\* requested one when its compile completes changes nothing in the mount point.
C7_CommitGating ==
  [][ \A a \in pending :
        (a \notin pending' /\ a.desc # chart) => mount' = mount ]_vars

\* C8 -- Idle state: while the description is empty or whitespace-only there
\* is no mount element and no output, and no attempt was started for a blank
\* description.
C8_Idle ==
  /\ Trim(chart) = <<>> => (~mounted /\ mount = Empty)
  /\ \A a \in pending : Trim(a.desc) # <<>>

C8_Witness ==
  /\ chart = <<" ">>
  /\ engineCalls = 2
  /\ Cardinality(pending) = 1

\* C9 -- Precondition skip: a downloadAsPNG call made while the mount point
\* holds no <svg> changes nothing but the count of calls.
C9_PreconditionSkip ==
  [][ (exportCalls' # exportCalls /\ ~SvgMounted)
        => UNCHANGED << renderVars, now, started, jobs, files,
                        urlsCreated, urlsRevoked >> ]_vars

\* A call was made while the only attempt's error panel (or nothing) was shown.
C9_Witness ==
  /\ engineCalls = 1
  /\ mounted /\ mount.kind = "error"
  /\ exportCalls = 1
  /\ jobs = {} /\ files = EmptyBag

\* C10 -- Compile failure handling: when the engine rejects the latest attempt
\* while its description is still the current one, the mount point then holds
\* that attempt's error panel (summary and detail, no markup), and the step
\* saves no file, starts no export and starts no attempt.
C10_CompileFailure ==
  [][ \A a \in pending :
        (a \notin pending' /\ errorLog' # errorLog /\ a.seq = engineCalls
           /\ a.desc = chart /\ mounted)
          => /\ mounted'
             /\ mount'.kind = "error"
             /\ mount'.seq = a.seq
             /\ mount'.detail = << "Error rendering diagram", a.desc >>
             /\ UNCHANGED << engineCalls, exportVars >>
             /\ pending' = pending \ {a} ]_vars

C10_Witness ==
  /\ mounted
  /\ mount.kind = "error"
  /\ mount.seq = engineCalls
  /\ mount.desc = chart
  /\ errorLog = 1

\* C11 -- Resource cleanup: between handler steps every object URL created
\* has been revoked, and one URL was created for every file saved (raster or
\* fallback).
C11_UrlsRevoked ==
  /\ urlsRevoked = urlsCreated
  /\ urlsCreated = BagCardinality(files)

\* A raster save and a fallback save have both happened.
C11_Witness ==
  /\ urlsCreated = 2
  /\ \E f \in BagToSet(files) : f.type = "image/png"
  /\ \E f \in BagToSet(files) : f.type = "image/svg+xml"

\* C12 (as stated) -- Padding/scale arithmetic: the pixel surface of every
\* export is exactly (W+80)*2 wide and (H+80)*2 high for the logical size
\* W x H of the element.
C12_ExactSurface ==
  \A j \in jobs :
    /\ j.canvasW * Resolution = (j.w + 80 * Resolution) * 2
    /\ j.canvasH * Resolution = (j.h + 80 * Resolution) * 2

\* C12 (amended) -- the pixel surface is (W+80)*2 by (H+80)*2 with the
\* fractional part dropped, W x H being the viewBox size of the element (its
\* bounding box when it declares none), and the image is drawn at (40, 40)
\* with size W x H.
C12_Surface ==
  /\ \A j \in jobs :
       /\ j.svgData[4] # 0 => j.w = j.svgData[4]
       /\ j.svgData[5] # 0 => j.h = j.svgData[5]
       /\ j.svgData[4] = 0 => \E r \in Rects : j.w = r.w
       /\ j.svgData[5] = 0 => \E r \in Rects : j.h = r.h
       /\ j.canvasW = ((j.w + 80 * Resolution) * 2) \div Resolution
       /\ j.canvasH = ((j.h + 80 * Resolution) * 2) \div Resolution
  /\ \A f \in BagToSet(files) :
       f.type = "image/png" =>
         /\ f.drawn[1] = 40 * Resolution /\ f.drawn[2] = 40 * Resolution
         /\ f.canvas[1] = ((f.drawn[3] + 80 * Resolution) * 2) \div Resolution
         /\ f.canvas[2] = ((f.drawn[4] + 80 * Resolution) * 2) \div Resolution
         /\ f.drawn[3] = f.src[6] /\ f.drawn[4] = f.src[7]

\* A raster file whose surface width lost a fraction while its height is exact.
C12_Witness ==
  \E f \in BagToSet(files) :
    /\ f.type = "image/png"
    /\ f.canvas[1] * Resolution < (f.drawn[3] + 80 * Resolution) * 2
    /\ f.canvas[2] * Resolution = (f.drawn[4] + 80 * Resolution) * 2

\* C13 -- Raster success path: when the toBlob callback of an export receives
\* a blob (the image decoded and the surface was encoded), it saves exactly
\* one file, a raster file named by the filename the caller passed, or
\* mermaid-diagram.png when the caller passed none; the export had saved no
\* file before and saves no vector file.
C13_RasterPath ==
  [][ \A j \in jobs :
        (j.stage = "encode" /\ j.blob /\ j \notin jobs')
          => /\ \A f \in BagToSet(files) : f.job # j.n
             /\ ~(\E k \in jobs' : k.n = j.n)
             /\ \E f \in BagToSet(files') :
                  /\ f.job = j.n
                  /\ f.type = "image/png"
                  /\ f.name = IF j.arg = <<>>
                                THEN <<"m","e","r","m","a","i","d","-",
                                       "d","i","a","g","r","a","m",".","p","n","g">>
                                ELSE j.arg[1]
                  /\ SavedOne(f) ]_vars

\* Both a call with a filename and a call without one have saved a raster file.
C13_Witness ==
  /\ \E f \in BagToSet(files) : f.type = "image/png" /\ f.arg = <<>>
  /\ \E f \in BagToSet(files) : f.type = "image/png" /\ f.arg # <<>>
  /\ jobs = {}

\* C14 -- Fallback filename: every vector fallback file is named like the
\* requested raster file with its extension .png replaced by .svg.
Requested(f) ==
  IF f.arg = <<>>
    THEN <<"m","e","r","m","a","i","d","-","d","i","a","g","r","a","m",".","p","n","g">>
    ELSE f.arg[1]
BaseName(r) == SubSeq(r, 1, Len(r) - 4)
Extension(r) == SubSeq(r, Len(r) - 3, Len(r))
C14_FallbackName ==
  \A f \in BagToSet(files) :
    (f.type = "image/svg+xml" /\ Len(Requested(f)) >= 4
       /\ Extension(Requested(f)) = <<".", "p", "n", "g">>)
      => f.name = BaseName(Requested(f)) \o <<".", "s", "v", "g">>

\* C15 -- Export trigger filenames do not collide: two different invocations
\* of handleDownload never pass the same filename to downloadAsPNG.
PassedNames ==
  { << j.n, j.arg >> : j \in jobs } \cup { << f.job, f.arg >> : f \in BagToSet(files) }
C15_DistinctFilenames ==
  \A x, y \in PassedNames : x[1] # y[1] => x[2] # y[2]

\* C16 -- Render-attempt identifiers are unique: two different attempts (both
\* pending, or one pending and one whose markup is mounted) never carry the
\* same identifier.
C16_UniqueIds ==
  /\ \A a, b \in pending : a.seq # b.seq => a.id # b.id
  /\ \A a \in pending : (mount.kind = "svg" /\ mount.seq # a.seq) => mount.id # a.id

\* C17 -- Single current outcome: whenever the mount point holds an outcome it
\* is one whole outcome of one attempt: either that attempt's styled markup
\* and nothing of an error panel, or that attempt's error panel and nothing
\* of a markup.
C17_SingleOutcome ==
  (mounted /\ mount.kind # "empty") =>
    \/ /\ mount.kind = "svg"
       /\ mount.detail = <<>>
       /\ mount.styled
       /\ mount.vbW = ViewBoxOf(mount.desc).w /\ mount.vbH = ViewBoxOf(mount.desc).h
       /\ mount.seq \in 1..engineCalls
    \/ /\ mount.kind = "error"
       /\ mount.detail = << "Error rendering diagram", mount.desc >>
       /\ ~mount.styled
       /\ mount.vbW = 0 /\ mount.vbH = 0 /\ mount.id = 0
       /\ mount.seq \in 1..engineCalls

\* The markup of the first attempt has replaced the error panel of the second.
C17_Witness ==
  /\ mounted /\ mount.kind = "svg" /\ mount.seq = 1
  /\ engineCalls = 2 /\ pending = {}
  /\ errorLog = 1 /\ unhandled = 0

\* C18 -- No automatic retry: the number of engine calls changes only in a
\* step that changes the description to a non-blank value, and every such
\* step makes exactly one engine call; a completion (success or failure)
\* makes none.
C18_NoRetry ==
  [][ /\ engineCalls' # engineCalls => (chart' # chart /\ Trim(chart') # <<>>)
      /\ (chart' # chart /\ Trim(chart') # <<>>)
           => /\ engineCalls' = engineCalls + 1
              /\ \E a \in pending' :
                   /\ a.desc = chart' /\ a.seq = engineCalls'
                   /\ pending' = pending \cup {a}
      /\ pending' # pending /\ chart' = chart => pending' \subseteq pending ]_vars

\* Two descriptions were rendered, one attempt failed, and nothing is pending.
C18_Witness ==
  /\ engineCalls = 2
  /\ errorLog = 1 /\ unhandled = 0
  /\ pending = {}
  /\ mounted /\ mount.kind = "error"

\* C19 -- Export does not depend on history: the data of an export are the
\* serialization of the element mounted at the instant of the call (its clone,
\* with the size stamped on it); they stay the same until its callbacks have
\* run, whatever the render controller commits meanwhile, and they are what
\* the export saves, as the source of the raster or as the vector fallback.
C19_ExportSnapshot ==
  [][ /\ \A k \in jobs' :
           ~(\E j \in jobs : j.n = k.n)
             => /\ SvgMounted
                /\ k.svgData = << "svg", mount.id, mount.desc, mount.vbW, mount.vbH,
                                  k.w, k.h, mount.styled >>
      /\ \A j \in jobs, k \in jobs' : j.n = k.n => k.svgData = j.svgData
      /\ \A j \in jobs :
           ~(\E k \in jobs' : k.n = j.n)
             => \A f \in BagToSet(files') : f.job = j.n => f.src = j.svgData ]_vars

\* A vector fallback and a raster file were saved from a markup that a newer
\* render has replaced since.
C19_Witness ==
  /\ SvgMounted
  /\ mount.seq = 2
  /\ \E f \in BagToSet(files) : f.type = "image/svg+xml" /\ f.src[3] # mount.desc
  /\ \E f \in BagToSet(files) : f.type = "image/png" /\ f.src[3] # mount.desc

\* C20 -- Export during a pending render is a no-op: starting an attempt
\* leaves the mount point empty, only the commit of an attempt's result fills
\* it again, and a downloadAsPNG call that finds it empty starts no decode,
\* saves no file and creates no object URL; no file ever belongs to such a call.
C20_PendingNoOp ==
  [][ /\ engineCalls' # engineCalls => mount'.kind = "empty"
      /\ (mount.kind = "empty" /\ mount'.kind # "empty") => pending' # pending
      /\ (exportCalls' # exportCalls /\ mount.kind = "empty")
           => UNCHANGED << started, jobs, files, urlsCreated, urlsRevoked >>
      /\ \A f \in BagToSet(files') : f.job \in started' ]_vars

\* A first diagram was rendered and exported; the description changed, the
\* second attempt is still pending, and a second export found nothing.
C20_Witness ==
  /\ mounted
  /\ mount.kind = "empty"
  /\ engineCalls = 2
  /\ pending # {}
  /\ \A a \in pending : a.seq = 2
  /\ exportCalls = 2
  /\ started = {1}
  /\ jobs = {}
  /\ BagCardinality(files) = 1
  /\ \E f \in BagToSet(files) : f.job = 1

\* C21 -- Render progress: when the engine settles every call and the
\* description stops changing at a value that is not blank, the mount point
\* eventually holds an outcome (markup or error panel) with no attempt left,
\* and with no attempt left it changes only when the description does; an
\* empty mount point stays empty, and no error is reported, for as long as no
\* call of the engine settles.
C21_RenderProgress ==
  /\ \A d \in Descriptions :
       TrimTruthy(d) =>
         (<>[](chart = d) => <>[](mounted /\ Outcome(mount) /\ pending = {}))
  /\ [][ /\ (pending = {} /\ chart' = chart) => mount' = mount
         /\ (pending' = pending /\ mount.kind = "empty") => mount'.kind = "empty"
         /\ pending' = pending => errorLog' = errorLog ]_vars

\* Two attempts were started and both have settled; the description is not
\* blank and the mount point holds an outcome.
C21_Witness ==
  /\ TrimTruthy(chart)
  /\ mounted
  /\ engineCalls = 2
  /\ pending = {}
  /\ mount.kind = "error"
  /\ unhandled = 0

\* C22 -- Single agent request in flight: isLoading is true exactly while a
\* call of the agent is outstanding, at most one call is outstanding, and
\* while isLoading is true the input cannot be changed and no request can be
\* submitted; the step that settles the call sets isLoading to false.
C22_SingleRequest ==
  /\ [](isLoading <=> requests # {})
  /\ [](Cardinality(requests) <= 1)
  /\ [][ /\ isLoading => (ytUrl' = ytUrl /\ submits' = submits)
         /\ submits' # submits
              => (isLoading' /\ requests' = { [ n |-> submits', url |-> ytUrl ] })
         /\ (requests # {} /\ requests' # requests)
              => (requests' = {} /\ ~isLoading') ]_vars

\* A second request is outstanding after the first one has settled.
C22_Witness ==
  /\ isLoading
  /\ submits = 2
  /\ Cardinality(requests) = 1
  /\ \A q \in requests : q.n = 2

\* C23 -- No diagram while loading: a submit that passes validation empties the
\* diagram description and clears the error as it starts the request; while a
\* request is outstanding the renderer is unmounted and no downloadAsPNG call
\* is made, so no export starts; a request that fails leaves the description
\* empty and sets the error message, one that succeeds makes the description
\* the returned diagram and sets no error.
C23_NoDiagramWhileLoading ==
  /\ [](requests # {} => (chart = <<>> /\ ~mounted /\ mount.kind = "empty"))
  /\ [][ /\ submits' # submits => (chart' = <<>> /\ error' = "" /\ requests' # {})
         /\ requests # {} => (exportCalls' = exportCalls /\ started' = started
                               /\ { j.n : j \in jobs' } \subseteq { j.n : j \in jobs })
         /\ (requests # {} /\ requests' = {})
              => \/ /\ chart' = <<>>
                    /\ description' = <<>>
                    /\ error' \in { "Failed to fetch", "An error occurred" }
                 \/ /\ \E r \in ShortResults :
                         chart' = r.mermaid /\ description' = r.description
                    /\ mounted' = (chart' # <<>>)
                    /\ error' = "" ]_vars

\* A first diagram was shown and exported to a file; a second request is
\* outstanding and the renderer is gone.
C23_Witness ==
  /\ requests # {}
  /\ submits = 2
  /\ ~mounted
  /\ chart = <<>>
  /\ exportCalls = 1
  /\ BagCardinality(files) = 1

\* C24 -- draw.io length limit: every window handleOpenInDrawIO opens gets a
\* URL of at most 2000 characters, the URL generated from the trimmed diagram
\* description, and opening it changes neither the error message nor the
\* description; when the URL is longer, the handler opens no window, sets the
\* error message 'Unable to open in draw.io: Diagram may be too large' and
\* leaves the description unchanged.
C24_DrawIOLimit ==
  /\ [](\A i \in DOMAIN opened : opened[i] <= 2000)
  /\ [][ /\ opened' # opened
              => /\ opened' = Append(opened, DrawIOUrlLength(chart))
                 /\ chart # <<>>
                 /\ UNCHANGED << chart, description, error >>
         /\ (error' = "Unable to open in draw.io: Diagram may be too large"
               /\ error' # error)
              => /\ DrawIOUrlLength(chart) > 2000
                 /\ UNCHANGED << chart, description, opened >>
         /\ (chart # <<>> /\ DrawIOUrlLength(chart) > 2000) => opened' = opened ]_vars

\* The diagram with a URL of exactly 2000 characters was opened in draw.io;
\* then the diagram whose URL has 2001 characters was refused and is still
\* the description.
C24_Witness ==
  /\ opened = << 2000 >>
  /\ chart = LargeDiagram
  /\ error = "Unable to open in draw.io: Diagram may be too large"
====
